---- MODULE Spec2Model ----
(***************************************************************************)
(* Model of async_twitch.py: a bot that keeps one IRC connection to the    *)
(* Twitch chat gateway, polls the Helix API for the live streamers among   *)
(* the configured channels, and joins / leaves chat channels accordingly.  *)
(*                                                                         *)
(* One asyncio event loop runs everything.  Code between two awaits is     *)
(* atomic; the model keeps the steps of main()'s synchronous section       *)
(* (lines 362-391) as separate actions so that their order is visible,     *)
(* and disables every other action while main is inside that section.      *)
(* Time is discrete: Tick advances every running timer by one unit and is  *)
(* disabled while an expired timer or a ready continuation is pending.     *)
(*                                                                         *)
(* Spec is the program; FairSpec adds the event loop's fairness; ObsSpec   *)
(* is the program with the answers of each poll, the commands sent per     *)
(* channel and the keepalive exchange recorded beside it.                  *)
(***************************************************************************)
EXTENDS Integers, Sequences, FiniteSets, TLC

\* ------------------------------------------------------------------ bounds
NumStreamers == 2          \* how many channels the configuration lists
MaxWait == 1               \* largest configured wait_time
MaxDataLen == 2            \* longest "data" list of a status response

\* ------------------------------------------------------- program constants
ReconnectDelay == 2        \* asyncio.sleep(2) in reconnect
DisconnectTimeout == 5     \* wait_for(bot.disconnect(), timeout=5)

\* ---------------------------------------------------------------- strings
\* Strings are sequences of one-character strings.
OAuthPrefix == <<"o", "a", "u", "t", "h", ":">>

StartsWith(s, p) ==
    /\ Len(s) >= Len(p)
    /\ SubSeq(s, 1, Len(p)) = p

\* config["oauth_token"] as the operator may write it: with or without prefix
TokenBodies == { <<"o", "a", "u", "t", "h", "k">> }
OAuthTokens == TokenBodies \cup { OAuthPrefix \o b : b \in TokenBodies }

BotUsername == <<"b", "o", "t">>

\* streamer identifiers, and config["channels"]: a non-empty list of distinct
\* identifiers
Channels == 1..NumStreamers
ChannelLists == { 1..n : n \in 1..NumStreamers }

ChannelName_Bare(channel) == <<channel>>

\* "#{}".format(channel)
ChannelName(channel) == <<"#", channel>>

\* config["wait_time"] as written in config.json (an int, any sign)
WaitTimes == {-1, 0} \cup (1..MaxWait)

\* HTTP status codes the token endpoint may answer with
TokenStatuses == {200, 404, 500, 503}

\* response_data.get("data"): a list of some length, or something else
NotAList == 0 - 1
DataShapes == {NotAList} \cup (0..MaxDataLen)

MotdEvents == {"RPL_ENDOFMOTD", "ERR_NOMOTD"}

\* the payload of a PING line
Messages == {"X", "Y"}

\* str(response.status).startswith("2") of line 190, and the 5xx class
IsSuccess(status) == status \div 100 = 2
IsServerError(status) == status \div 100 = 5

PollErrors == {"AuthServiceError", "MissingTokenError", "MalformedResponseError"}

NoTimer == 0 - 1

NoReply == [status |-> 0, hasToken |-> FALSE]
NoData == 0 - 2
NoMessage == "none"

VARIABLES
    procpc,          \* "validate" | "config_error" | "running" | "exited"
    wait_time,       \* config["wait_time"]
    oauth_token,     \* config["oauth_token"]
    channels,        \* config["channels"]
    access_token,    \* config["access_token"] present after a refresh
    joined,          \* STREAMER_LISTS["joined"]
    offline,         \* STREAMER_LISTS["offline"]
    mainpc,          \* position of the main() task
    waiters,         \* events prepare_socket's bot.wait() futures wait for
    outstanding,     \* streamers whose status query has not answered yet
    live_results,    \* streamers whose status query answered "live"
    currently_alive_streamers,
    previous_alive_streamers,
    now_offline_streamers,
    to_join_streamers,
    todo,            \* channels the running leave/join loop has yet to send
    sleepLeft,       \* remaining time of main's asyncio.sleep, or NoTimer
    lastErr,         \* exception that ended the main task, or "none"
    protocol,        \* bot.protocol is set: the transport is up
    connecting,      \* a bot.connect() call is in flight
    backoff,         \* remaining time of reconnect's sleep, or NoTimer
    registered,      \* the gateway sent its MOTD reply on this connection
    handshake,       \* commands the connect handler sent on this connection
    connJoined,      \* channels JOINed (and not PARTed) on this connection
    cycleSent,       \* commands main sent in the current cycle, in order
    sigint,          \* a termination signal was received
    handlepc,        \* position of the handle() task
    disconnectLeft,  \* remaining time of wait_for(bot.disconnect()), or NoTimer
    \* history of the run (read by properties only)
    prevLive,        \* live set the last completed cycle observed
    lastGood,        \* joined/offline sets as the last completed cycle left them
    startJoined,     \* joined set when the running cycle began
    motdSeen,        \* an end-of-MOTD or no-MOTD event has been received
    downFor,         \* time since CLIENT_DISCONNECT fired, while reconnect sleeps
    unsolicited,     \* a transport drop awaits its reconnect attempt
    reconnAfterSig,  \* reconnect called bot.connect() after the signal
    \* what the program was given and what it wrote (read by properties only,
    \* recorded by ObsNext)
    tokenReply,      \* the token endpoint's answer in the running cycle
    statusData,      \* each streamer's status answer in the running batch
    lastSent,        \* the last command main sent for each channel
    lastPing,        \* payload of the last PING received, and where main was
    lastPong         \* payload of the last PONG sent

vars == << procpc, wait_time, oauth_token, channels, access_token, joined, offline, mainpc,
           waiters, outstanding, live_results, currently_alive_streamers,
           previous_alive_streamers, now_offline_streamers, to_join_streamers,
           todo, sleepLeft, lastErr, protocol, connecting, backoff, registered,
           handshake, connJoined, cycleSent, sigint, handlepc, disconnectLeft,
           prevLive, lastGood, startJoined, motdSeen, downFor, unsolicited,
           reconnAfterSig, tokenReply, statusData, lastSent, lastPing, lastPong >>

\* the program's variables: everything but the observations
progVars == << procpc, wait_time, oauth_token, channels, access_token, joined,
               offline, mainpc, waiters, outstanding, live_results,
               currently_alive_streamers, previous_alive_streamers,
               now_offline_streamers, to_join_streamers, todo, sleepLeft, lastErr,
               protocol, connecting, backoff, registered, handshake, connJoined,
               cycleSent, sigint, handlepc, disconnectLeft, prevLive, lastGood,
               startJoined, motdSeen, downFor, unsolicited, reconnAfterSig >>

configVars == << wait_time, oauth_token, channels >>
listVars == << joined, offline >>
localVars == << currently_alive_streamers, previous_alive_streamers,
                now_offline_streamers, to_join_streamers, todo >>
pollVars == << outstanding, live_results, access_token >>
connVars == << protocol, connecting, backoff, registered, handshake, connJoined,
               downFor, unsolicited, reconnAfterSig >>
shutdownVars == << sigint, handlepc, disconnectLeft >>
histVars == << prevLive, lastGood, startJoined, motdSeen >>
obsVars == << tokenReply, statusData, lastSent, lastPing, lastPong >>

\* ------------------------------------------------------------------- Init
Init ==
    /\ procpc = "validate"
    /\ wait_time \in WaitTimes
    /\ oauth_token \in OAuthTokens
    /\ channels \in ChannelLists
    /\ access_token = FALSE
    /\ joined = {}
    /\ offline = channels
    /\ mainpc = "init"
    /\ waiters = {}
    /\ outstanding = {}
    /\ live_results = {}
    /\ currently_alive_streamers = {}
    /\ previous_alive_streamers = {}
    /\ now_offline_streamers = {}
    /\ to_join_streamers = {}
    /\ todo = {}
    /\ sleepLeft = NoTimer
    /\ lastErr = "none"
    /\ protocol = FALSE
    /\ connecting = FALSE
    /\ backoff = NoTimer
    /\ registered = FALSE
    /\ handshake = << >>
    /\ connJoined = {}
    /\ cycleSent = << >>
    /\ sigint = FALSE
    /\ handlepc = "idle"
    /\ disconnectLeft = NoTimer
    /\ prevLive = {}
    /\ lastGood = [joined |-> {}, offline |-> channels]
    /\ startJoined = {}
    /\ motdSeen = FALSE
    /\ downFor = NoTimer
    /\ unsolicited = FALSE
    /\ reconnAfterSig = FALSE
    /\ tokenReply = NoReply
    /\ statusData = [c \in Channels |-> NoData]
    /\ lastSent = [c \in Channels |-> "none"]
    /\ lastPing = [message |-> NoMessage, at |-> "init"]
    /\ lastPong = NoMessage

\* main() is between line 372 and line 391: no other task can run
MainAtomic == mainpc \in {"diff", "replace", "leave", "join", "rule"}

\* the event loop is running and may schedule a task or deliver an event
Running == procpc = "running" /\ ~MainAtomic

\* ---------------------------------------------------------------- startup
\* validate_config (lines 31-96) on the keys the model varies.  Every key is
\* present and of the right type; the value check "not v and type(v) is not
\* bool" rejects the falsy wait_time 0 and nothing else.  Lines 398-399 then
\* create the bot.connect() task and the main() task, whose first await is
\* prepare_socket's two bot.wait() futures.
validate_config ==
    /\ procpc = "validate"
    /\ IF wait_time = 0
         THEN /\ procpc' = "config_error"
              /\ UNCHANGED << mainpc, waiters, connecting >>
         ELSE /\ procpc' = "running"
              /\ connecting' = TRUE
              /\ mainpc' = "gate"
              /\ waiters' = MotdEvents
    /\ UNCHANGED << configVars, listVars, localVars, pollVars, sleepLeft, lastErr,
                    protocol, backoff, registered, handshake, connJoined, downFor,
                    unsolicited, reconnAfterSig, cycleSent, shutdownVars, histVars >>

\* ------------------------------------------------------------- connection
NormalizeToken_Always(tok) == OAuthPrefix \o tok

\* lines 106-108
NormalizeToken(tok) ==
    IF ~StartsWith(tok, OAuthPrefix) THEN OAuthPrefix \o tok ELSE tok

\* the three sends of the connect handler, lines 111-113
ConnectCommands ==
    << [cmd |-> "PASS", arg |-> NormalizeToken(oauth_token)],
       [cmd |-> "NICK", arg |-> BotUsername],
       [cmd |-> "CAP", arg |-> <<"REQ", "twitch.tv/membership">>] >>

\* bot.connect() succeeds: the transport is up, CLIENT_CONNECT fires and the
\* connect handler (lines 103-115) runs before any other ready task.  A new
\* transport is a new gateway session: no MOTD yet, no channel joined.
connect ==
    /\ Running
    /\ connecting
    /\ connecting' = FALSE
    /\ protocol' = TRUE
    /\ registered' = FALSE
    /\ connJoined' = {}
    /\ handshake' = ConnectCommands
    /\ UNCHANGED << procpc, configVars, listVars, localVars, pollVars, mainpc,
                    waiters, sleepLeft, lastErr, backoff, downFor, unsolicited,
                    reconnAfterSig, cycleSent, shutdownVars, histVars >>

\* bot.connect() raises (host unreachable): its task ends with the exception;
\* no CLIENT_DISCONNECT fires, so nothing schedules another attempt.
ConnectFails ==
    /\ Running
    /\ connecting
    /\ connecting' = FALSE
    /\ UNCHANGED << procpc, configVars, listVars, localVars, pollVars, mainpc,
                    waiters, sleepLeft, lastErr, protocol, backoff, registered,
                    handshake, connJoined, downFor, unsolicited, reconnAfterSig,
                    cycleSent, shutdownVars, histVars >>

\* The transport is lost without having been asked for: bot.protocol is
\* cleared and CLIENT_DISCONNECT starts the reconnect handler, which first
\* sleeps (line 121).
TransportDrop ==
    /\ Running
    /\ protocol
    /\ protocol' = FALSE
    /\ backoff' = ReconnectDelay
    /\ downFor' = 0
    /\ unsolicited' = TRUE
    /\ UNCHANGED << procpc, configVars, listVars, localVars, pollVars, mainpc,
                    waiters, sleepLeft, lastErr, connecting, registered, handshake,
                    connJoined, reconnAfterSig, cycleSent, shutdownVars, histVars >>

\* reconnect (lines 118-124) after its sleep: await bot.connect()
reconnect ==
    /\ Running
    /\ backoff = 0
    /\ backoff' = NoTimer
    /\ downFor' = NoTimer
    /\ connecting' = TRUE
    /\ unsolicited' = FALSE
    /\ reconnAfterSig' = (reconnAfterSig \/ sigint)
    /\ UNCHANGED << procpc, configVars, listVars, localVars, pollVars, mainpc,
                    waiters, sleepLeft, lastErr, protocol, registered, handshake,
                    connJoined, cycleSent, shutdownVars, histVars >>

RecvMotd_AllCompleted(ev) ==
    /\ Running
    /\ protocol
    /\ ~registered
    /\ registered' = TRUE
    /\ motdSeen' = TRUE
    /\ IF mainpc = "gate" /\ ev \in waiters
         THEN /\ waiters' = waiters \ {ev}
              /\ mainpc' = IF waiters' = {} THEN "loop" ELSE "gate"
         ELSE UNCHANGED << mainpc, waiters >>
    /\ UNCHANGED << procpc, configVars, listVars, localVars, pollVars, sleepLeft,
                    lastErr, protocol, connecting, backoff, handshake, connJoined,
                    downFor, unsolicited, reconnAfterSig, cycleSent, shutdownVars,
                    prevLive, lastGood, startJoined >>

\* The gateway ends registration with RPL_ENDOFMOTD or ERR_NOMOTD, once per
\* connection.  prepare_socket (lines 246-259): asyncio.wait returns on the
\* first of its two waiters, the pending one is cancelled, main goes on to
\* its loop.  With no waiter left the event only reaches the loggers.
RecvMotd(ev) ==
    /\ Running
    /\ protocol
    /\ ~registered
    /\ registered' = TRUE
    /\ motdSeen' = TRUE
    /\ IF mainpc = "gate" /\ ev \in waiters
         THEN /\ waiters' = {}
              /\ mainpc' = "loop"
         ELSE UNCHANGED << mainpc, waiters >>
    /\ UNCHANGED << procpc, configVars, listVars, localVars, pollVars, sleepLeft,
                    lastErr, protocol, connecting, backoff, handshake, connJoined,
                    downFor, unsolicited, reconnAfterSig, cycleSent, shutdownVars,
                    prevLive, lastGood, startJoined >>

keepalive_Static(message) ==
    /\ Running
    /\ protocol
    /\ lastPing' = [message |-> message, at |-> mainpc]
    /\ lastPong' = "X"
    /\ UNCHANGED << progVars, tokenReply, statusData, lastSent >>

\* keepalive, lines 127-129: the gateway's PING reaches the client on an open
\* transport while the loop is free to deliver it; the handler is a plain
\* function without an await, so its PONG is written in the same step, with
\* the message it was given.  Nothing else of the program changes.
keepalive(message) ==
    /\ Running
    /\ protocol
    /\ lastPing' = [message |-> message, at |-> mainpc]
    /\ lastPong' = message
    /\ UNCHANGED << progVars, tokenReply, statusData, lastSent >>

\* --------------------------------------------------------------- polling
\* main() ends with an exception: nothing catches it (lines 357-393 hold no
\* try), so the task is finished and the while loop never runs again.
MainRaises(err) ==
    /\ mainpc' = "dead"
    /\ lastErr' = err

BeginCycle_NoSleep ==
    /\ Running
    /\ mainpc \in {"loop", "sleep"}
    /\ mainpc' = "token"
    /\ sleepLeft' = NoTimer
    /\ startJoined' = joined
    /\ UNCHANGED << procpc, configVars, listVars, localVars, pollVars, waiters,
                    lastErr, connVars, cycleSent, shutdownVars, prevLive, lastGood,
                    motdSeen >>

\* Top of the while loop (line 357), reached from prepare_socket or when the
\* sleep of line 393 is over: get_alive_streamers posts the token request
\* (lines 267-269, 179).
BeginCycle ==
    /\ Running
    /\ \/ mainpc = "loop"
       \/ mainpc = "sleep" /\ sleepLeft = 0
    /\ mainpc' = "token"
    /\ sleepLeft' = NoTimer
    /\ startJoined' = joined
    /\ UNCHANGED << procpc, configVars, listVars, localVars, pollVars, waiters,
                    lastErr, connVars, cycleSent, shutdownVars, prevLive, lastGood,
                    motdSeen >>

TokenResponse_Swallow(status, hasToken) ==
    /\ Running
    /\ mainpc = "token"
    /\ IF status = 500 \/ ~hasToken
         THEN /\ lastErr' = IF status = 500 THEN "AuthServiceError"
                                            ELSE "MissingTokenError"
              /\ currently_alive_streamers' = {}
              /\ mainpc' = "diff"
              /\ UNCHANGED pollVars
         ELSE /\ access_token' = TRUE
              /\ outstanding' = channels
              /\ live_results' = {}
              /\ mainpc' = "status"
              /\ UNCHANGED << lastErr, currently_alive_streamers >>
    /\ UNCHANGED << procpc, configVars, listVars, previous_alive_streamers,
                    now_offline_streamers, to_join_streamers, todo, waiters,
                    sleepLeft, connVars, cycleSent, shutdownVars, histVars >>

TokenResponse_Strict(status, hasToken) ==
    /\ Running
    /\ mainpc = "token"
    /\ IF ~IsSuccess(status)
         THEN /\ MainRaises("AuthServiceError")
              /\ UNCHANGED pollVars
         ELSE IF ~hasToken
         THEN /\ MainRaises("MissingTokenError")
              /\ UNCHANGED pollVars
         ELSE /\ access_token' = TRUE
              /\ outstanding' = channels
              /\ live_results' = {}
              /\ mainpc' = "status"
              /\ UNCHANGED lastErr
    /\ UNCHANGED << procpc, configVars, listVars, localVars, waiters, sleepLeft,
                    connVars, cycleSent, shutdownVars, histVars >>

\* retrieve_access_token, lines 180-213, on the token endpoint's answer; then
\* lines 270-282: the token is stored and one status query per configured
\* streamer is started.
TokenResponse(status, hasToken) ==
    /\ Running
    /\ mainpc = "token"
    /\ IF status = 500
         THEN /\ MainRaises("AuthServiceError")
              /\ UNCHANGED pollVars
         ELSE IF ~hasToken
         THEN /\ MainRaises("MissingTokenError")
              /\ UNCHANGED pollVars
         ELSE /\ access_token' = TRUE
              /\ outstanding' = channels
              /\ live_results' = {}
              /\ mainpc' = "status"
              /\ UNCHANGED lastErr
    /\ UNCHANGED << procpc, configVars, listVars, localVars, waiters, sleepLeft,
                    connVars, cycleSent, shutdownVars, histVars >>

IsLive_NonEmpty(data) == data >= 1

\* line 243: len(response_data["data"]) == 1
IsLive(data) == data = 1

StatusResponse_Partial(streamer, data) ==
    /\ Running
    /\ streamer \in outstanding
    /\ outstanding' = outstanding \ {streamer}
    /\ IF mainpc # "status"
         THEN UNCHANGED << mainpc, lastErr, live_results, currently_alive_streamers >>
         ELSE /\ live_results' = IF data # NotAList /\ IsLive(data)
                                   THEN live_results \cup {streamer}
                                   ELSE live_results
              /\ IF outstanding' = {}
                   THEN /\ currently_alive_streamers' = live_results'
                        /\ mainpc' = "diff"
                   ELSE UNCHANGED << mainpc, currently_alive_streamers >>
              /\ UNCHANGED lastErr
    /\ UNCHANGED << procpc, configVars, listVars, previous_alive_streamers,
                    now_offline_streamers, to_join_streamers, todo, access_token,
                    waiters, sleepLeft, connVars, cycleSent, shutdownVars, histVars >>

\* retrieve_streaming_status, lines 231-243, on one streamer's answer, and what
\* asyncio.gather (lines 272-282) makes of it.  A KeyError leaves gather at
\* once and ends main; the other queries keep running unobserved.  The last
\* answer completes the batch: lines 284-288 and 362-364 collect the live names.
StatusResponse(streamer, data) ==
    /\ Running
    /\ streamer \in outstanding
    /\ outstanding' = outstanding \ {streamer}
    /\ IF mainpc # "status"
         THEN UNCHANGED << mainpc, lastErr, live_results, currently_alive_streamers >>
         ELSE IF data = NotAList
         THEN /\ MainRaises("MalformedResponseError")
              /\ UNCHANGED << live_results, currently_alive_streamers >>
         ELSE /\ live_results' = IF IsLive(data) THEN live_results \cup {streamer}
                                                ELSE live_results
              /\ IF outstanding' = {}
                   THEN /\ currently_alive_streamers' = live_results'
                        /\ mainpc' = "diff"
                   ELSE UNCHANGED << mainpc, currently_alive_streamers >>
              /\ UNCHANGED lastErr
    /\ UNCHANGED << procpc, configVars, listVars, previous_alive_streamers,
                    now_offline_streamers, to_join_streamers, todo, access_token,
                    waiters, sleepLeft, connVars, cycleSent, shutdownVars, histVars >>

\* ------------------------------------------------------------ reconciling
ComputeDiff_JoinAll ==
    /\ procpc = "running"
    /\ mainpc = "diff"
    /\ previous_alive_streamers' = joined
    /\ now_offline_streamers' = joined \ currently_alive_streamers
    /\ to_join_streamers' = currently_alive_streamers
    /\ mainpc' = "replace"
    /\ UNCHANGED << procpc, configVars, listVars, currently_alive_streamers, todo,
                    pollVars, waiters, sleepLeft, lastErr, connVars, cycleSent,
                    shutdownVars, histVars >>

ComputeDiff_PartAllOffline ==
    /\ procpc = "running"
    /\ mainpc = "diff"
    /\ previous_alive_streamers' = joined
    /\ now_offline_streamers' = channels \ currently_alive_streamers
    /\ to_join_streamers' = currently_alive_streamers \ joined
    /\ mainpc' = "replace"
    /\ UNCHANGED << procpc, configVars, listVars, currently_alive_streamers, todo,
                    pollVars, waiters, sleepLeft, lastErr, connVars, cycleSent,
                    shutdownVars, histVars >>

\* lines 372-383
ComputeDiff ==
    /\ procpc = "running"
    /\ mainpc = "diff"
    /\ previous_alive_streamers' = joined
    /\ now_offline_streamers' = previous_alive_streamers' \ currently_alive_streamers
    /\ to_join_streamers' = currently_alive_streamers \ joined
    /\ mainpc' = "replace"
    /\ UNCHANGED << procpc, configVars, listVars, currently_alive_streamers, todo,
                    pollVars, waiters, sleepLeft, lastErr, connVars, cycleSent,
                    shutdownVars, histVars >>

ReplaceLists_AfterSends ==
    /\ procpc = "running"
    /\ mainpc = "replace"
    /\ todo' = now_offline_streamers
    /\ mainpc' = "leave"
    /\ UNCHANGED << procpc, configVars, listVars, currently_alive_streamers,
                    previous_alive_streamers, now_offline_streamers,
                    to_join_streamers, pollVars, waiters, sleepLeft, lastErr,
                    connVars, cycleSent, shutdownVars, histVars >>

ReplaceLists_OnlyNew ==
    /\ procpc = "running"
    /\ mainpc = "replace"
    /\ joined' = to_join_streamers
    /\ offline' = now_offline_streamers
    /\ todo' = now_offline_streamers
    /\ mainpc' = "leave"
    /\ UNCHANGED << procpc, configVars, currently_alive_streamers,
                    previous_alive_streamers, now_offline_streamers,
                    to_join_streamers, pollVars, waiters, sleepLeft, lastErr,
                    connVars, cycleSent, shutdownVars, histVars >>

\* lines 385-386, then line 388 takes list(now_offline_streamers)
ReplaceLists ==
    /\ procpc = "running"
    /\ mainpc = "replace"
    /\ joined' = currently_alive_streamers
    /\ offline' = now_offline_streamers
    /\ todo' = now_offline_streamers
    /\ mainpc' = "leave"
    /\ UNCHANGED << procpc, configVars, currently_alive_streamers,
                    previous_alive_streamers, now_offline_streamers,
                    to_join_streamers, pollVars, waiters, sleepLeft, lastErr,
                    connVars, cycleSent, shutdownVars, histVars >>

\* bot.send(command, channel="#...") from main; cycleSent records the call.
\* With the transport up the line is written and the gateway's membership
\* follows.  With the transport down the client library either discards the
\* line or raises, which ends main: the model allows both.
BotSend(command, channel) ==
    \/ /\ protocol
       /\ cycleSent' = Append(cycleSent, [cmd |-> command, arg |-> ChannelName(channel)])
       /\ connJoined' = IF command = "JOIN" THEN connJoined \cup {channel}
                                            ELSE connJoined \ {channel}
       /\ todo' = todo \ {channel}
       /\ UNCHANGED << mainpc, lastErr >>
    \/ /\ ~protocol
       /\ cycleSent' = Append(cycleSent, [cmd |-> command, arg |-> ChannelName(channel)])
       /\ todo' = todo \ {channel}
       /\ UNCHANGED << connJoined, mainpc, lastErr >>
    \/ /\ ~protocol
       /\ MainRaises("NotConnected")
       /\ UNCHANGED << cycleSent, connJoined, todo >>

\* leave_channels, lines 301-308: one PART per channel, in the order list()
\* gave the set; then line 389 takes list(to_join_streamers)
leave_channels ==
    /\ procpc = "running"
    /\ mainpc = "leave"
    /\ IF todo = {}
         THEN /\ mainpc' = "join"
              /\ todo' = to_join_streamers
              /\ UNCHANGED << cycleSent, connJoined, lastErr >>
         ELSE \E channel \in todo : BotSend("PART", channel)
    /\ UNCHANGED << procpc, configVars, listVars, currently_alive_streamers,
                    previous_alive_streamers, now_offline_streamers,
                    to_join_streamers, pollVars, waiters, sleepLeft, protocol,
                    connecting, backoff, registered, handshake, downFor,
                    unsolicited, reconnAfterSig, shutdownVars, histVars >>

\* join_channels, lines 291-298: one JOIN per channel; then line 391
join_channels ==
    /\ procpc = "running"
    /\ mainpc = "join"
    /\ IF todo = {}
         THEN /\ mainpc' = "rule"
              /\ UNCHANGED << todo, cycleSent, connJoined, lastErr >>
         ELSE \E channel \in todo : BotSend("JOIN", channel)
    /\ UNCHANGED << procpc, configVars, listVars, currently_alive_streamers,
                    previous_alive_streamers, now_offline_streamers,
                    to_join_streamers, pollVars, waiters, sleepLeft, protocol,
                    connecting, backoff, registered, handshake, downFor,
                    unsolicited, reconnAfterSig, shutdownVars, histVars >>

\* line 393: asyncio.sleep(int(config["wait_time"])); a delay <= 0 only
\* yields to the loop once.  The cycle is complete: its locals are dropped.
Sleep ==
    /\ procpc = "running"
    /\ mainpc = "rule"
    /\ mainpc' = "sleep"
    /\ sleepLeft' = IF wait_time > 0 THEN wait_time ELSE 0
    /\ currently_alive_streamers' = {}
    /\ previous_alive_streamers' = {}
    /\ now_offline_streamers' = {}
    /\ to_join_streamers' = {}
    /\ todo' = {}
    /\ cycleSent' = << >>
    /\ prevLive' = currently_alive_streamers
    /\ lastGood' = [joined |-> joined, offline |-> offline]
    /\ startJoined' = {}
    /\ UNCHANGED << procpc, configVars, listVars, pollVars, waiters, lastErr,
                    connVars, shutdownVars, motdSeen >>

\* --------------------------------------------------------------- shutdown
\* handle_sigint, lines 132-134: the signal handler creates the handle() task
handle_sigint ==
    /\ procpc = "running"
    /\ ~sigint
    /\ sigint' = TRUE
    /\ handlepc' = "start"
    /\ UNCHANGED << procpc, configVars, listVars, localVars, pollVars, mainpc,
                    waiters, sleepLeft, lastErr, connVars, cycleSent,
                    disconnectLeft, histVars >>

\* handle, lines 141-143: wait_for(bot.disconnect(), timeout=5) starts
handle ==
    /\ Running
    /\ handlepc = "start"
    /\ handlepc' = "disconnecting"
    /\ disconnectLeft' = DisconnectTimeout
    /\ UNCHANGED << procpc, configVars, listVars, localVars, pollVars, mainpc,
                    waiters, sleepLeft, lastErr, connVars, cycleSent, sigint,
                    histVars >>

\* bot.disconnect() returns: a transport that was up is closed, which fires
\* CLIENT_DISCONNECT and so starts the reconnect handler (line 118).
DisconnectDone ==
    /\ Running
    /\ handlepc = "disconnecting"
    /\ handlepc' = "stop"
    /\ disconnectLeft' = NoTimer
    /\ IF protocol
         THEN /\ protocol' = FALSE
              /\ backoff' = ReconnectDelay
              /\ downFor' = 0
         ELSE UNCHANGED << protocol, backoff, downFor >>
    /\ UNCHANGED << procpc, configVars, listVars, localVars, pollVars, mainpc,
                    waiters, sleepLeft, lastErr, connecting, registered, handshake,
                    connJoined, unsolicited, reconnAfterSig, cycleSent, sigint,
                    histVars >>

DisconnectTimesOut_Unbounded ==
    /\ Running
    /\ handlepc = "disconnecting"
    /\ disconnectLeft = 0
    /\ disconnectLeft' = NoTimer
    /\ UNCHANGED << procpc, configVars, listVars, localVars, pollVars, mainpc,
                    waiters, sleepLeft, lastErr, connVars, cycleSent, sigint,
                    handlepc, histVars >>

\* lines 144-145: the disconnect did not return within its timeout
DisconnectTimesOut ==
    /\ Running
    /\ handlepc = "disconnecting"
    /\ disconnectLeft = 0
    /\ handlepc' = "stop"
    /\ disconnectLeft' = NoTimer
    /\ UNCHANGED << procpc, configVars, listVars, localVars, pollVars, mainpc,
                    waiters, sleepLeft, lastErr, connVars, cycleSent, sigint,
                    histVars >>

\* lines 150-160: bot.loop.stop() and exit()
HandleExit ==
    /\ Running
    /\ handlepc = "stop"
    /\ handlepc' = "done"
    /\ procpc' = "exited"
    /\ UNCHANGED << configVars, listVars, localVars, pollVars, mainpc, waiters,
                    sleepLeft, lastErr, connVars, cycleSent, sigint,
                    disconnectLeft, histVars >>

\* ------------------------------------------------------------------- time
Elapse(t) == IF t > 0 THEN t - 1 ELSE t

\* One time unit passes.  A timer that has run out fires first, and a task
\* that is ready to run (main leaving prepare_socket, handle between its
\* awaits) runs first.
Tick ==
    /\ Running
    /\ sleepLeft # 0 /\ backoff # 0 /\ disconnectLeft # 0
    /\ sleepLeft > 0 \/ backoff > 0 \/ disconnectLeft > 0
    /\ mainpc # "loop"
    /\ handlepc \notin {"start", "stop"}
    /\ sleepLeft' = Elapse(sleepLeft)
    /\ backoff' = Elapse(backoff)
    /\ disconnectLeft' = Elapse(disconnectLeft)
    /\ downFor' = IF backoff > 0 THEN downFor + 1 ELSE downFor
    /\ UNCHANGED << procpc, configVars, listVars, localVars, pollVars, mainpc,
                    waiters, lastErr, protocol, connecting, registered, handshake,
                    connJoined, unsolicited, reconnAfterSig, cycleSent, sigint,
                    handlepc, histVars >>

\* ---------------------------------------------------------- specification
\* The program.  It records none of the observations.
Next ==
    \/ validate_config /\ UNCHANGED obsVars
    \/ connect /\ UNCHANGED obsVars
    \/ ConnectFails /\ UNCHANGED obsVars
    \/ TransportDrop /\ UNCHANGED obsVars
    \/ reconnect /\ UNCHANGED obsVars
    \/ \E ev \in MotdEvents :
          RecvMotd(ev) /\ UNCHANGED obsVars
    \/ BeginCycle /\ UNCHANGED obsVars
    \/ \E status \in TokenStatuses, hasToken \in BOOLEAN :
          TokenResponse(status, hasToken) /\ UNCHANGED obsVars
    \/ \E streamer \in Channels, data \in DataShapes :
          StatusResponse(streamer, data) /\ UNCHANGED obsVars
    \/ ComputeDiff /\ UNCHANGED obsVars
    \/ ReplaceLists /\ UNCHANGED obsVars
    \/ leave_channels /\ UNCHANGED obsVars
    \/ join_channels /\ UNCHANGED obsVars
    \/ Sleep /\ UNCHANGED obsVars
    \/ handle_sigint /\ UNCHANGED obsVars
    \/ handle /\ UNCHANGED obsVars
    \/ DisconnectDone /\ UNCHANGED obsVars
    \/ DisconnectTimesOut /\ UNCHANGED obsVars
    \/ HandleExit /\ UNCHANGED obsVars
    \/ Tick /\ UNCHANGED obsVars

Spec == Init /\ [][Next]_vars

\* The program with its inputs and outputs observed: the answers of the
\* current poll are kept until the cycle ends, every JOIN or PART is noted
\* for its channel, and the gateway's PINGs are answered.
RecordSent ==
    lastSent' =
        IF Len(cycleSent') > Len(cycleSent)
          THEN [lastSent EXCEPT ![cycleSent'[Len(cycleSent')].arg[2]] =
                                    cycleSent'[Len(cycleSent')].cmd]
          ELSE lastSent

ObsNext ==
    \/ validate_config /\ UNCHANGED obsVars
    \/ connect /\ UNCHANGED obsVars
    \/ ConnectFails /\ UNCHANGED obsVars
    \/ TransportDrop /\ UNCHANGED obsVars
    \/ reconnect /\ UNCHANGED obsVars
    \/ \E ev \in MotdEvents :
          RecvMotd(ev) /\ UNCHANGED obsVars
    \/ \E message \in Messages :
          keepalive(message)
    \/ BeginCycle /\ UNCHANGED obsVars
    \/ \E status \in TokenStatuses, hasToken \in BOOLEAN :
          /\ TokenResponse(status, hasToken)
          /\ tokenReply' = [status |-> status, hasToken |-> hasToken]
          /\ UNCHANGED << statusData, lastSent, lastPing, lastPong >>
    \/ \E streamer \in Channels, data \in DataShapes :
          /\ StatusResponse(streamer, data)
          /\ statusData' = [statusData EXCEPT ![streamer] = data]
          /\ UNCHANGED << tokenReply, lastSent, lastPing, lastPong >>
    \/ ComputeDiff /\ UNCHANGED obsVars
    \/ ReplaceLists /\ UNCHANGED obsVars
    \/ leave_channels /\ RecordSent
          /\ UNCHANGED << tokenReply, statusData, lastPing, lastPong >>
    \/ join_channels /\ RecordSent
          /\ UNCHANGED << tokenReply, statusData, lastPing, lastPong >>
    \/ Sleep /\ tokenReply' = NoReply /\ statusData' = [c \in Channels |-> NoData]
          /\ UNCHANGED << lastSent, lastPing, lastPong >>
    \/ Tick /\ UNCHANGED obsVars

\* Observed for one valid configuration of each channel list; no signal
\* arrives.
ObsInit ==
    /\ Init
    /\ wait_time = MaxWait
    /\ oauth_token \in TokenBodies

ObsSpec == ObsInit /\ [][ObsNext]_vars

\* What the event loop guarantees: a task that is ready runs, a timer that
\* has run out fires, time passes, and every request that was issued is
\* answered.  Main's synchronous section only delays the other tasks, hence
\* strong fairness for them.  Nothing obliges the transport to drop, a
\* signal to arrive, or bot.disconnect() to return.
MainStep ==
    \/ BeginCycle
    \/ \E status \in TokenStatuses, hasToken \in BOOLEAN : TokenResponse(status, hasToken)
    \/ \E streamer \in Channels, data \in DataShapes : StatusResponse(streamer, data)
    \/ ComputeDiff
    \/ ReplaceLists
    \/ leave_channels
    \/ join_channels
    \/ Sleep

ConnStep ==
    \/ connect
    \/ ConnectFails
    \/ reconnect
    \/ \E ev \in MotdEvents : RecvMotd(ev)

HandleStep ==
    \/ handle
    \/ DisconnectTimesOut
    \/ HandleExit

Fairness ==
    /\ WF_vars(validate_config /\ UNCHANGED obsVars)
    /\ WF_vars(MainStep /\ UNCHANGED obsVars)
    /\ SF_vars(ConnStep /\ UNCHANGED obsVars)
    /\ SF_vars(HandleStep /\ UNCHANGED obsVars)
    /\ SF_vars(Tick /\ UNCHANGED obsVars)

\* Liveness is checked for the configurations that list one channel.
FairInit == Init /\ Cardinality(channels) = 1

FairSpec == FairInit /\ [][Next]_vars /\ Fairness

\* ------------------------------------------------------------- properties
CycleCmds(command) ==
    { cycleSent[i].arg : i \in { k \in 1..Len(cycleSent) : cycleSent[k].cmd = command } }

ChannelNames(streamers) == { ChannelName(c) : c \in streamers }

\* C1: when a cycle has failed while polling (token request failed, token
\* missing, or a status answer malformed), that cycle has sent no JOIN and no
\* PART, and the stored joined and offline sets are those the last successful
\* cycle left.
C1_FailedPollLeavesState ==
    lastErr \in PollErrors =>
        /\ cycleSent = << >>
        /\ joined = lastGood.joined
        /\ offline = lastGood.offline

C1_Witness ==
    /\ lastErr = "MalformedResponseError"
    /\ mainpc = "dead"
    /\ lastGood.joined # {}
    /\ lastGood.offline # {}

\* C3: at rest between cycles every configured streamer is in exactly one of
\* the joined set and the offline set.
C3_ExactlyOneListAtRest ==
    (procpc = "running" /\ mainpc \in {"gate", "loop", "sleep"}) =>
        \A c \in channels : (c \in joined) # (c \in offline)

\* C4: once a cycle has computed its difference sets, with joined the stored
\* joined set at the start of the cycle and live the polled set, toJoin is
\* live minus joined, nowOffline is joined minus live, the two are disjoint,
\* and with the intersection of live and joined they make up the union of
\* live and joined.
C4_DiffSets ==
    mainpc \in {"replace", "leave", "join", "rule"} =>
        /\ to_join_streamers = currently_alive_streamers \ startJoined
        /\ now_offline_streamers = startJoined \ currently_alive_streamers
        /\ to_join_streamers \cap now_offline_streamers = {}
        /\ to_join_streamers \cup now_offline_streamers
             \cup (currently_alive_streamers \cap startJoined)
           = currently_alive_streamers \cup startJoined

C4_Witness ==
    /\ mainpc = "replace"
    /\ to_join_streamers # {}
    /\ now_offline_streamers # {}

C6_NoChurn ==
    mainpc \in {"replace", "leave", "join", "rule"} =>
        /\ \A c \in startJoined \cap currently_alive_streamers :
              \A i \in 1..Len(cycleSent) : cycleSent[i].arg # ChannelName(c)
        /\ currently_alive_streamers = prevLive =>
              /\ to_join_streamers = {}
              /\ now_offline_streamers = {}
              /\ cycleSent = << >>

C6_Witness ==
    /\ mainpc = "rule"
    /\ prevLive # {}
    /\ currently_alive_streamers = prevLive
    /\ startJoined = prevLive

\* C7: until the first end-of-MOTD or no-MOTD event has been received, main
\* waits in prepare_socket on both events and has issued no token request, no
\* status query and no JOIN or PART; the first of the two events releases
\* main and leaves no waiter pending.
C7_ReadyGate ==
    /\ ~motdSeen =>
          /\ mainpc \in {"init", "gate"}
          /\ mainpc = "gate" => waiters = MotdEvents
          /\ ~access_token
          /\ outstanding = {}
          /\ cycleSent = << >>
          /\ connJoined = {}
    /\ motdSeen =>
          /\ mainpc \notin {"init", "gate"}
          /\ waiters = {}

C7_Witness ==
    /\ motdSeen
    /\ mainpc = "status"
    /\ waiters = {}

\* C2: after a cycle has aborted on a polling error the loop retries: a new
\* cycle is eventually started (unless the process has exited meanwhile).
C2_RetryAfterAbort ==
    (lastErr \in PollErrors) ~> (mainpc = "token" \/ procpc = "exited")

\* C8: if no termination signal arrives, the main loop keeps starting
\* cycles and never sends while the transport is down, and the connection,
\* once re-established, stays up, then from some point on the channels joined
\* on the current connection are the stored joined set whenever the loop is
\* at rest.
C8_RejoinsAfterReconnect ==
    ( /\ []<>(mainpc = "token")
      /\ []~sigint
      /\ [](mainpc \in {"leave", "join"} => protocol)
      /\ <>[]protocol )
        => <>[](mainpc = "sleep" => connJoined = joined)

\* the connect handler has sent PASS with the token prefixed exactly once,
\* then NICK, then the membership capability request
C9_Handshake ==
    protocol =>
        /\ Len(handshake) = 3
        /\ handshake[1].cmd = "PASS"
        /\ \E b \in TokenBodies :
              /\ handshake[1].arg = OAuthPrefix \o b
              /\ oauth_token \in {b, OAuthPrefix \o b}
        /\ handshake[2] = [cmd |-> "NICK", arg |-> BotUsername]
        /\ handshake[3] = [cmd |-> "CAP", arg |-> <<"REQ", "twitch.tv/membership">>]

\* reconnect's sleep lasts ReconnectDelay time units, no more and no less, and
\* ends with the connection attempt
C9_Backoff ==
    /\ [](downFor # NoTimer => downFor <= ReconnectDelay)
    /\ [][(backoff # NoTimer /\ backoff' = NoTimer)
            => (downFor = ReconnectDelay /\ connecting')]_vars

\* C9 as stated: every unsolicited transport disconnect is eventually
\* followed, after the backoff, by a connection attempt, and every successful
\* connect sends PASS, NICK and the capability request in that order.
C9_ReconnectAlways ==
    /\ []C9_Handshake
    /\ C9_Backoff
    /\ unsolicited ~> connecting

\* C9, amended: every unsolicited transport disconnect is eventually
\* followed, after the backoff, by a connection attempt unless the process
\* exits first, and every successful connect sends PASS, NICK and the
\* capability request in that order.
C9_ReconnectUnlessExit ==
    /\ []C9_Handshake
    /\ C9_Backoff
    /\ unsolicited ~> (connecting \/ procpc = "exited")

C9_Witness ==
    /\ protocol
    /\ ~registered
    /\ motdSeen
    /\ ~sigint
    /\ StartsWith(oauth_token, OAuthPrefix)

\* C11: after a termination signal the process eventually exits, whether or
\* not the transport's disconnect ever completes: a disconnect that has not
\* returned when its timeout runs out is abandoned and exit still follows.
C11_ExitAfterSignal ==
    /\ sigint ~> (procpc = "exited")
    /\ (handlepc = "disconnecting" /\ disconnectLeft = 0) ~> (procpc = "exited")
    /\ [](procpc = "exited" => handlepc = "done")

C11_Witness ==
    /\ handlepc = "disconnecting"
    /\ disconnectLeft = 0
    /\ protocol
    /\ mainpc = "dead"

\* C10: once a termination signal has been received, the reconnect handler
\* never goes on to open a connection.
C10_NoReconnectAfterSignal == ~reconnAfterSig

\* C17: at most one reconciliation cycle is in progress: status queries are
\* outstanding only while main awaits the fan-out (or after it has died on
\* one of them); a cycle and its token request start only from the top of the
\* loop, with no query of the previous fan-out outstanding and the previous
\* sleep run out; the stored token changes only on the token answer; and the
\* joined and offline sets change only in main's replacement step, with no
\* query outstanding.
C17_OneCycleAtATime ==
    /\ [](outstanding # {} => mainpc \in {"status", "dead"})
    /\ [][(mainpc # "token" /\ mainpc' = "token")
            => /\ outstanding = {}
               /\ mainpc = "loop" \/ (mainpc = "sleep" /\ sleepLeft = 0)]_vars
    /\ [][access_token' # access_token => mainpc = "token"]_vars
    /\ [][(joined' # joined \/ offline' # offline)
            => (outstanding = {} /\ mainpc = "replace")]_vars

C17_Witness ==
    /\ mainpc = "token"
    /\ lastGood.joined # {}
    /\ wait_time > 0
    /\ ~protocol

\* C18: a configured wait interval that is zero or negative never gets past
\* configuration validation: the program runs only with a positive interval.
C18_NonPositiveWaitRejected ==
    procpc \in {"running", "exited"} => wait_time > 0

\* C20: the stored joined set holds configured streamers only and shares no
\* member with the stored offline set, and every JOIN or PART sent names the
\* channel of a configured streamer: '#' followed by the identifier.
C20_JoinedWithinConfig ==
    /\ joined \subseteq channels
    /\ joined \cap offline = {}
    /\ \A i \in 1..Len(cycleSent) :
          /\ cycleSent[i].cmd \in {"JOIN", "PART"}
          /\ \E c \in channels : cycleSent[i].arg = <<"#", c>>

C20_Witness ==
    /\ mainpc = "rule"
    /\ joined # {}
    /\ offline # {}
    /\ Len(cycleSent) = 2

TokenErrors == {"AuthServiceError", "MissingTokenError"}

\* C12: every PING received is answered, in the step that receives it, by a
\* PONG carrying the same payload and by no other command, so that no JOIN,
\* PART, PASS or NICK is ever sent while a PING is unanswered; wherever main
\* is in its cycle.
C12_PongEchoesPing ==
    /\ [](lastPong = lastPing.message)
    /\ [][lastPing' # lastPing
            => /\ lastPong' = lastPing'.message
               /\ lastPing'.at = mainpc
               /\ cycleSent' = cycleSent
               /\ handshake' = handshake]_vars

C12_Witness ==
    /\ lastPing = [message |-> "Y", at |-> "status"]
    /\ lastPong = "Y"
    /\ outstanding # {}

\* C13: a status answer whose data is a list reports its streamer live
\* exactly when the list has one entry, and the batch's live set holds
\* exactly the streamers whose own answer reported live.
C13_LiveIffOneEntry ==
    /\ mainpc = "status" =>
          /\ \A s \in channels \ outstanding : statusData[s] \in 0..MaxDataLen
          /\ live_results = { s \in channels \ outstanding : statusData[s] = 1 }
    /\ mainpc \in {"diff", "replace", "leave", "join", "rule"} =>
          /\ \A s \in channels : statusData[s] \in 0..MaxDataLen
          /\ currently_alive_streamers = { s \in channels : statusData[s] = 1 }

C13_Witness ==
    /\ mainpc = "diff"
    /\ statusData[1] = 2
    /\ statusData[2] = 1
    /\ currently_alive_streamers = {2}

\* C14: whenever the token endpoint has answered with a server-error status
\* (any 5xx), the cycle is aborted with an error and no status query is
\* issued.
C14_ServerErrorAborts ==
    (tokenReply # NoReply /\ IsServerError(tokenReply.status)) =>
        /\ mainpc = "dead"
        /\ lastErr \in TokenErrors
        /\ outstanding = {}

\* C15: for a token answer whose status is neither 2xx nor 5xx the body is
\* still read: with a token field the token is returned and stored, and the
\* cycle fails with MissingTokenError exactly when the field is missing; for
\* any status, an answer without the field returns no token.
C15_TolerantPath ==
    tokenReply # NoReply =>
        /\ (~IsSuccess(tokenReply.status) /\ ~IsServerError(tokenReply.status)) =>
              /\ tokenReply.hasToken => (lastErr \notin TokenErrors /\ access_token)
              /\ (~tokenReply.hasToken) <=> (lastErr = "MissingTokenError")
        /\ (~tokenReply.hasToken) => (mainpc = "dead" /\ lastErr \in TokenErrors)

C15_Witness ==
    /\ tokenReply = [status |-> 404, hasToken |-> TRUE]
    /\ mainpc = "status"
    /\ outstanding = channels

\* C16: when any streamer's status answer of a batch has a data field that
\* is not a list, the batch has failed with that error: main has ended with
\* it, no live set was returned, nothing was sent and the stored sets are
\* untouched, whatever the other streamers answered and in whatever order.
C16_BatchFailsAsAWhole ==
    (\E s \in Channels : statusData[s] = NotAList) =>
        /\ mainpc = "dead"
        /\ lastErr = "MalformedResponseError"
        /\ currently_alive_streamers = {}
        /\ cycleSent = << >>
        /\ joined = lastGood.joined
        /\ offline = lastGood.offline

C16_Witness ==
    /\ lastErr = "MalformedResponseError"
    /\ statusData[1] = 1
    /\ statusData[2] = NotAList
    /\ live_results = {1}

\* C19: a PART for a channel is sent only when the last command sent for
\* that channel was a JOIN of an earlier cycle, and a JOIN only when no
\* command or a PART was the last one: per channel, JOIN and PART alternate
\* starting with JOIN, and a cycle sends at most one command per channel.
C19_JoinPartAlternate ==
    /\ [](\A i, j \in 1..Len(cycleSent) :
             i # j => cycleSent[i].arg # cycleSent[j].arg)
    /\ [][Len(cycleSent') > Len(cycleSent)
            => LET m == cycleSent'[Len(cycleSent')]
               IN  /\ m.cmd = "PART" =>
                         /\ lastSent[m.arg[2]] = "JOIN"
                         /\ \A i \in 1..Len(cycleSent) : cycleSent[i].arg # m.arg
                   /\ m.cmd = "JOIN" => lastSent[m.arg[2]] \in {"none", "PART"}
                   /\ lastSent'[m.arg[2]] = m.cmd]_vars

C19_Witness ==
    /\ mainpc = "rule"
    /\ Len(cycleSent) = 2
    /\ lastSent[1] = "PART"
    /\ lastSent[2] = "JOIN"

====
